---- MODULE Spec2Model ----
(***************************************************************************)
(* A model of the LTIFilter class (src/LTIFilter.h, src/LTIFilter.cpp):    *)
(* the two constructors, update, reset, operator* and conv, over IEEE-754  *)
(* single-precision values.                                                *)
(*                                                                         *)
(* A float is the record [c, s, m, e], read off the binary32 encoding with *)
(* sign bit s, biased exponent field x and fraction field fr:              *)
(*   c = "fin": the value (-1)^s * m * 2^(e-23), where                     *)
(*              x in 1..254: m = 2^23 + fr, e = x - 127 (a normal number); *)
(*              x = 0:       m = fr,        e = -126   (a subnormal        *)
(*                           number, or the zero of sign s when fr = 0);   *)
(*   c = "inf": x = 255, fr = 0, the infinity of sign s (m = 0, e = 0);    *)
(*   c = "nan": x = 255, fr # 0, a NaN (s = 0, m = 0, e = 0: the code      *)
(*              never inspects a NaN's sign or payload).                   *)
(* Arithmetic rounds to nearest, ties to even, overflows to an infinity    *)
(* and underflows gradually through the subnormals to a signed zero, as    *)
(* the hardware does.                                                      *)
(***************************************************************************)
EXTENDS Integers, Sequences, FiniteSets, TLC

(***************************************************************************)
(* Single-precision arithmetic                                             *)
(***************************************************************************)
Zero == [c |-> "fin", s |-> 0, m |-> 0, e |-> -126]

NaN == [c |-> "nan", s |-> 0, m |-> 0, e |-> 0]

Inf(s) == [c |-> "inf", s |-> s, m |-> 0, e |-> 0]

RECURSIVE BitLen(_)
BitLen(n) == IF n = 0 THEN 0 ELSE 1 + BitLen(n \div 2)

\* The float of sign s, significand m < 2^24 and exponent e >= -126 (m < 2^23
\* only when e = -126): an infinity once e exceeds the largest exponent.
Pack(s, m, e) ==
    IF e > 127 THEN Inf(s) ELSE [c |-> "fin", s |-> s, m |-> m, e |-> e]

\* The float nearest to (-1)^s * (M + t) * 2^E, where 0 < t < 1 when sticky
\* and t = 0 otherwise; M < 2^31, and M >= 2^25 whenever sticky.  sh is the
\* number of low bits of M below the last place of the result: that place is
\* 2^-149 for a result under the normal range.  M = 0 is an exact zero,
\* which is positive in this rounding mode.
RoundPack(s, M, E, sticky) ==
    LET L  == BitLen(M)
        sh == IF E + L - 1 < -126 THEN 0 - 149 - E ELSE L - 24
    IN  IF M = 0 THEN Zero
        ELSE IF sh <= 0 THEN Pack(s, M * 2^(0 - sh), E + sh + 23)
        ELSE IF sh > L THEN Pack(s, 0, -126)
        ELSE IF sh = L
             THEN Pack(s, IF sticky \/ M > 2^(L - 1) THEN 1 ELSE 0, -126)
        ELSE LET q    == M \div 2^sh
                 r    == M % 2^sh
                 half == 2^(sh - 1)
                 up   == r > half \/ (r = half /\ (sticky \/ q % 2 = 1))
                 q2   == IF up THEN q + 1 ELSE q
             IN  IF q2 = 2^24 THEN Pack(s, 2^23, E + sh + 24)
                 ELSE Pack(s, q2, E + sh + 23)

\* An integer literal or integer-valued input as a float.
FromInt(i) == RoundPack(IF i < 0 THEN 1 ELSE 0, IF i < 0 THEN -i ELSE i, 0, FALSE)

One == FromInt(1)

IsZero(u) == u.c = "fin" /\ u.m = 0

\* The significand and exponent of a finite non-zero u with the significand
\* brought into 2^23..2^24-1 (a subnormal's exponent goes below -126).
Norm(u) ==
    LET sh == 24 - BitLen(u.m) IN [m |-> u.m * 2^sh, e |-> u.e - sh]

fneg(u) == IF u.c = "nan" THEN u ELSE [u EXCEPT !.s = 1 - u.s]

\* u * v: the 48-bit product of the significands by 12-bit limbs, then
\* rounded.
fmul(u, v) ==
    LET s == (u.s + v.s) % 2 IN
    IF u.c = "nan" \/ v.c = "nan" THEN NaN
    ELSE IF u.c = "inf" \/ v.c = "inf"
         THEN IF IsZero(u) \/ IsZero(v) THEN NaN ELSE Inf(s)
    ELSE IF IsZero(u) \/ IsZero(v) THEN Pack(s, 0, -126)
    ELSE LET nu  == Norm(u)
             nv  == Norm(v)
             h1  == nu.m \div 4096
             l1  == nu.m % 4096
             h2  == nv.m \div 4096
             l2  == nv.m % 4096
             mid == h1 * l2 + l1 * h2
             low == l1 * l2 + (mid % 4096) * 4096
             lo  == low % 2^24
             hi  == h1 * h2 + mid \div 4096 + low \div 2^24
         IN  RoundPack(s, hi * 64 + lo \div 2^18, nu.e + nv.e - 28,
                       lo % 2^18 # 0)

\* u + v: the smaller operand aligned under six guard bits and a sticky bit.
fadd(u, v) ==
    IF u.c = "nan" \/ v.c = "nan" THEN NaN
    ELSE IF u.c = "inf"
         THEN IF v.c = "inf" /\ v.s # u.s THEN NaN ELSE u
    ELSE IF v.c = "inf" THEN v
    ELSE IF IsZero(u) /\ IsZero(v) THEN (IF u.s = v.s THEN u ELSE Zero)
    ELSE IF IsZero(u) THEN v
    ELSE IF IsZero(v) THEN u
    ELSE LET uBig   == u.e > v.e \/ (u.e = v.e /\ u.m >= v.m)
             big    == IF uBig THEN u ELSE v
             small  == IF uBig THEN v ELSE u
             d      == big.e - small.e
             Mb     == big.m * 64
             Ms     == IF d > 30 THEN 0 ELSE (small.m * 64) \div 2^d
             sticky == IF d > 30 THEN TRUE ELSE (small.m * 64) % 2^d # 0
         IN  IF big.s = small.s
             THEN RoundPack(big.s, Mb + Ms, big.e - 29, sticky)
             ELSE RoundPack(big.s, Mb - Ms - (IF sticky THEN 1 ELSE 0),
                            big.e - 29, sticky)

fsub(u, v) == fadd(u, fneg(v))

\* The first n base-64 digits of R / m and the remainder, as <<Q, R>>.
RECURSIVE LongDiv(_, _, _, _)
LongDiv(Q, R, m, n) ==
    IF n = 0 THEN <<Q, R>>
    ELSE LongDiv(Q * 64 + (R * 64) \div m, (R * 64) % m, m, n - 1)

\* 1.0f / u
frecip(u) ==
    IF u.c = "nan" THEN NaN
    ELSE IF u.c = "inf" THEN Pack(u.s, 0, -126)
    ELSE IF IsZero(u) THEN Inf(u.s)
    ELSE LET nu == Norm(u)
             qr == LongDiv(0, 2^23, nu.m, 5)
         IN  RoundPack(u.s, qr[1], 0 - 30 - nu.e, qr[2] # 0)

(***************************************************************************)
(* The filter object (src/LTIFilter.h:82-87).  a, b, y and x are functions *)
(* on 0..A-1 and 0..B-1: the entries of the fixed-size arrays beyond the   *)
(* orders are never read and are left out.                                 *)
(***************************************************************************)
MAX_A == 3

MAX_B == 3

Uint8(n) == n % 256

\* Storage an object is constructed in: no member has an initializer, so
\* frame and the history entries hold whatever the storage held (zero bytes
\* for an object of static storage duration).
Storage(A, B, frame, g) ==
    [A |-> A, B |-> B, frame |-> frame,
     a |-> [k \in 0..(A - 1) |-> g], b |-> [k \in 0..(B - 1) |-> g],
     y |-> [n \in 0..(A - 1) |-> g], x |-> [n \in 0..(B - 1) |-> g]]

\* reset() that zeroes the histories and forgets the warmup counter.
resetKeepsFrame(f) ==
    [f EXCEPT !.y = [n \in 0..(f.A - 1) |-> Zero],
              !.x = [n \in 0..(f.B - 1) |-> Zero]]

\* void LTIFilter::reset()
reset(f) ==
    [f EXCEPT !.y = [n \in 0..(f.A - 1) |-> Zero],
              !.x = [n \in 0..(f.B - 1) |-> Zero],
              !.frame = 1]

\* LTIFilter::LTIFilter(uint8_t A, float* a, uint8_t B, float* b)
LTIFilter(mem, A, a, B, b) ==
    LET scale == frecip(a[0])
    IN  reset([mem EXCEPT !.A = A, !.B = B,
                          !.a = [k \in 0..(A - 1) |-> fmul(a[k], scale)],
                          !.b = [k \in 0..(B - 1) |-> fmul(b[k], scale)]])

\* LTIFilter::LTIFilter()
LTIFilterDefault(mem) ==
    [mem EXCEPT !.A = 1, !.B = 1, !.a = [k \in {0} |-> One],
                !.b = [k \in {0} |-> One]]

\* for (k = from; k < B; k++) yn += b[k] * x[k];
RECURSIVE AddTerms(_, _, _, _, _)
AddTerms(b, x, k, B, yn) ==
    IF k < B THEN AddTerms(b, x, k + 1, B, fadd(yn, fmul(b[k], x[k]))) ELSE yn

\* for (k = from; k < A; k++) yn -= a[k] * y[k];
RECURSIVE SubTerms(_, _, _, _, _)
SubTerms(a, y, k, A, yn) ==
    IF k < A THEN SubTerms(a, y, k + 1, A, fsub(yn, fmul(a[k], y[k]))) ELSE yn

\* The shift run upwards, for (n = 1; n < N; n++) buf[n] = buf[n - 1]: every
\* entry ends as buf[0].
ShiftUpwards(buf, N) == [n \in 0..(N - 1) |-> buf[0]]

\* for (n = N - 1; n > 0; n--) buf[n] = buf[n - 1];
Shift(buf, N) == [n \in 0..(N - 1) |-> IF n > 0 THEN buf[n - 1] ELSE buf[0]]

\* update() gating with frame <= B: one more zero is returned.
updateGatesOneMore(f, xn) ==
    LET ys == Shift(f.y, f.A)
        xs1 == [Shift(f.x, f.B) EXCEPT ![0] = xn]
        yn == SubTerms(f.a, ys, 1, f.A, AddTerms(f.b, xs1, 0, f.B, Zero))
        g  == [f EXCEPT !.y = [ys EXCEPT ![0] = yn], !.x = xs1]
    IN  IF f.frame <= f.B
        THEN [f |-> [g EXCEPT !.frame = Uint8(f.frame + 1)], ret |-> Zero]
        ELSE [f |-> g, ret |-> yn]

\* float LTIFilter::update(float xn): the object after the call and the
\* value returned.
update(f, xn) ==
    LET ys == Shift(f.y, f.A)
        xs1 == [Shift(f.x, f.B) EXCEPT ![0] = xn]
        yn == SubTerms(f.a, ys, 1, f.A, AddTerms(f.b, xs1, 0, f.B, Zero))
        g  == [f EXCEPT !.y = [ys EXCEPT ![0] = yn], !.x = xs1]
    IN  IF f.frame < f.B
        THEN [f |-> [g EXCEPT !.frame = Uint8(f.frame + 1)], ret |-> Zero]
        ELSE [f |-> g, ret |-> yn]

Max(i, j) == IF i > j THEN i ELSE j

Min(i, j) == IF i < j THEN i ELSE j

\* The inner loop of conv with = for +=: only the last product is kept.
RECURSIVE ConvTermsAssign(_, _, _, _, _, _)
ConvTermsAssign(x1, x2, n, k, k_max, yn) ==
    IF k <= k_max
    THEN ConvTermsAssign(x1, x2, n, k + 1, k_max, fmul(x1[k], x2[n - k]))
    ELSE yn

\* for (k = k; k <= k_max; k++) y[n] += x1[k] * x2[n - k];
RECURSIVE ConvTerms(_, _, _, _, _, _)
ConvTerms(x1, x2, n, k, k_max, yn) ==
    IF k <= k_max
    THEN ConvTerms(x1, x2, n, k + 1, k_max, fadd(yn, fmul(x1[k], x2[n - k])))
    ELSE yn

\* void conv(float* x1, uint8_t N1, float* x2, uint8_t N2, float* y)
conv(x1, N1, x2, N2) ==
    [n \in 0..(Uint8(N1 + N2 - 1) - 1) |->
        ConvTerms(x1, x2, n, Uint8(Max(0, n - (N2 - 1))),
                  Uint8(Min(N1 - 1, n)), Zero)]

\* The arguments operator* hands to the constructor.
TimesArgs(g1, g2) ==
    [A |-> Uint8(g1.A + g2.A - 1), a |-> conv(g1.a, g1.A, g2.a, g2.A),
     B |-> Uint8(g1.B + g2.B - 1), b |-> conv(g1.b, g1.B, g2.b, g2.B)]

\* LTIFilter operator*(LTIFilter f1, LTIFilter f2)
Times(mem, g1, g2) ==
    LET r == TimesArgs(g1, g2) IN LTIFilter(mem, r.A, r.a, r.B, r.b)

\* The writes of the constructor (and of the reset() it runs) that fall
\* outside the arrays of LTIFILTER_MAX_A and LTIFILTER_MAX_B entries.
OutOfBounds(A, B) ==
    {<<arr, k>> : arr \in {"a", "y"}, k \in MAX_A..(A - 1)}
        \cup {<<arr, k>> : arr \in {"b", "x"}, k \in MAX_B..(B - 1)}

(***************************************************************************)
(* Inputs                                                                  *)
(***************************************************************************)
MaxSteps == 4

A0Ints == {0, 1, 2, 41}

AInts == {-1, 2}

BInts == {1, -2}

XInts == {1, -2}

PairA0Ints == {1, 41}

PairB0Ints == {1}

PairAInts == {2}

GarbageFrames == {0, 1, 2, 255}

Garbage == {Zero, FromInt(7)}

\* The arrays of N floats whose first entry is drawn from first and whose
\* other entries are drawn from rest.
Arrays(N, first, rest) ==
    {[k \in 0..(N - 1) |-> FromInt(IF k = 0 THEN h ELSE t[k])] :
        h \in first, t \in [1..(N - 1) -> rest]}

\* 2^-128, a subnormal a[0]: its reciprocal overflows.
TinyA0 == Pack(0, 2^21, -126)

\* The feedback arrays of N floats the constructor is called with.
FeedbackArrays(N) ==
    Arrays(N, A0Ints, AInts)
        \cup {[a EXCEPT ![0] = TinyA0] : a \in Arrays(N, {1}, AInts)}

(***************************************************************************)
(* State                                                                   *)
(***************************************************************************)
VARIABLES
    pc,     \* "start", "live" (f alone), "pair" (operands built),
            \* "cascade" (f = f1 * f2 beside its operands), "undefined"
    f,      \* the filter under test
    ret,    \* the value the last update of f returned
    xs,     \* the inputs fed to f since its construction or last reset
    last,   \* the last operation on f
    wasReset, \* f.reset() has been called since f was constructed
    err,    \* the error reported to the caller, "none" when there is none
    req,    \* the arguments the constructor of f was called with
    oob,    \* the out-of-bounds writes made while constructing f
    f1, f2, \* the operands of operator*
    r1, r2, \* the values the last updates of f1 and of f2 returned
    sync    \* f1, f2 and f were fresh together and fed in step since

vars == <<pc, f, ret, xs, last, wasReset, err, req, oob, f1, f2, r1, r2, sync>>

NoFilter == Storage(0, 0, 0, Zero)

NoReq == [kind |-> "none", A |-> 0, a |-> <<>>, B |-> 0, b |-> <<>>]

Init ==
    /\ pc = "start"
    /\ f = NoFilter
    /\ ret = Zero
    /\ xs = <<>>
    /\ last = "none"
    /\ wasReset = FALSE
    /\ err = "none"
    /\ req = NoReq
    /\ oob = {}
    /\ f1 = NoFilter
    /\ f2 = NoFilter
    /\ r1 = Zero
    /\ r2 = Zero
    /\ sync = FALSE

\* The state of the program once a constructor of f has run with orders A
\* and B: neither the constructors nor operator* report an error, and past
\* a write outside an array the behaviour is undefined.
Constructed(A, B, then) ==
    /\ oob' = OutOfBounds(A, B)
    /\ pc' = IF OutOfBounds(A, B) = {} THEN then ELSE "undefined"
    /\ err' = "none"
    /\ xs' = <<>>
    /\ last' = "ctor"
    /\ wasReset' = FALSE

\* LTIFilter f(A, a, B, b);
Construct ==
    /\ pc = "start"
    /\ \E A \in 1..(MAX_A + 1), B \in 1..(MAX_B + 1), fr \in GarbageFrames,
          g \in Garbage :
         \E a \in FeedbackArrays(A), b \in Arrays(B, BInts, BInts) :
            /\ f' = LTIFilter(Storage(A, B, fr, g), A, a, B, b)
            /\ req' = [kind |-> "param", A |-> A, a |-> a, B |-> B, b |-> b]
            /\ Constructed(A, B, "live")
    /\ UNCHANGED <<ret, f1, f2, r1, r2, sync>>

\* LTIFilter f;
ConstructDefault ==
    /\ pc = "start"
    /\ \E fr \in GarbageFrames, g \in Garbage :
         f' = LTIFilterDefault(Storage(1, 1, fr, g))
    /\ req' = [NoReq EXCEPT !.kind = "default"]
    /\ Constructed(1, 1, "live")
    /\ UNCHANGED <<ret, f1, f2, r1, r2, sync>>

\* f.update(xn);
Update ==
    /\ pc = "live"
    /\ Len(xs) < MaxSteps
    /\ \E xn \in XInts :
         LET u == update(f, FromInt(xn))
         IN  /\ f' = u.f
             /\ ret' = u.ret
             /\ xs' = Append(xs, FromInt(xn))
    /\ last' = "update"
    /\ UNCHANGED <<pc, wasReset, err, req, oob, f1, f2, r1, r2, sync>>

\* f.reset();
Reset ==
    /\ pc = "live"
    /\ f' = reset(f)
    /\ xs' = <<>>
    /\ last' = "reset"
    /\ wasReset' = TRUE
    /\ UNCHANGED <<pc, ret, err, req, oob, f1, f2, r1, r2, sync>>

\* LTIFilter f1(A1, a1, B1, b1), f2(A2, a2, B2, b2);
ConstructPair ==
    /\ pc = "start"
    /\ \E A1 \in 1..MAX_A, B1 \in 1..(MAX_B - 1) :
         \E a1 \in Arrays(A1, PairA0Ints, PairAInts), b1 \in Arrays(B1, PairB0Ints, BInts) :
            f1' = LTIFilter(Storage(A1, B1, 255, FromInt(7)), A1, a1, B1, b1)
    /\ \E A2 \in 1..(MAX_A - 1), B2 \in 1..(MAX_B - 1) :
         \E a2 \in Arrays(A2, {1}, PairAInts), b2 \in Arrays(B2, PairB0Ints, BInts) :
            f2' = LTIFilter(Storage(A2, B2, 255, FromInt(7)), A2, a2, B2, b2)
    /\ pc' = "pair"
    /\ UNCHANGED <<f, ret, xs, last, wasReset, err, req, oob, r1, r2, sync>>

\* LTIFilter f = f1 * f2;  (also once the operands have been used)
Convolve ==
    /\ pc = "pair" \/ (pc = "cascade" /\ sync /\ xs # <<>>)
    /\ LET r == TimesArgs(f1, f2)
       IN  /\ f' = Times(Storage(r.A, r.B, 255, FromInt(7)), f1, f2)
           /\ req' = [kind |-> "conv", A |-> r.A, a |-> r.a, B |-> r.B, b |-> r.b]
           /\ Constructed(r.A, r.B, "cascade")
    /\ sync' = (pc = "pair")
    /\ UNCHANGED <<ret, f1, f2, r1, r2>>

\* r1 = f1.update(xn); r2 = f2.update(r1); ret = f.update(xn);
CascadeStep ==
    /\ pc = "cascade"
    /\ sync
    /\ Len(xs) < MaxSteps
    /\ \E xn \in XInts :
         LET u1 == update(f1, FromInt(xn))
             u2 == update(f2, u1.ret)
             u  == update(f, FromInt(xn))
         IN  /\ f1' = u1.f
             /\ r1' = u1.ret
             /\ f2' = u2.f
             /\ r2' = u2.ret
             /\ f' = u.f
             /\ ret' = u.ret
             /\ xs' = Append(xs, FromInt(xn))
    /\ last' = "update"
    /\ UNCHANGED <<pc, wasReset, err, req, oob, sync>>

\* f1.reset(); f2.reset(); f.reset();
ResetAll ==
    /\ pc = "cascade"
    /\ f1' = reset(f1)
    /\ f2' = reset(f2)
    /\ f' = reset(f)
    /\ xs' = <<>>
    /\ last' = "reset"
    /\ wasReset' = TRUE
    /\ sync' = TRUE
    /\ UNCHANGED <<pc, ret, err, req, oob, r1, r2>>

\* Execution past an out-of-bounds write: the object may hold anything.
Undefined ==
    /\ pc = "undefined"
    /\ \E fr \in {0, 255}, g \in Garbage : f' = Storage(MAX_A, MAX_B, fr, g)
    /\ last' = "undefined"
    /\ UNCHANGED <<pc, ret, xs, wasReset, err, req, oob, f1, f2, r1, r2, sync>>

Next ==
    \/ Construct
    \/ ConstructDefault
    \/ Update
    \/ Reset
    \/ ConstructPair
    \/ Convolve
    \/ CascadeStep
    \/ ResetAll
    \/ Undefined

Spec == Init /\ [][Next]_vars

\* f is a constructed object whose behaviour is defined.
Live == pc \in {"live", "cascade"}

(***************************************************************************)
(* Reference definitions the claims are stated with                        *)
(***************************************************************************)
\* u / v correctly rounded (finite non-zero operands): what "the supplied
\* value divided by the supplied a[0]" is in single precision.
fdiv(u, v) ==
    IF IsZero(u) THEN Pack((u.s + v.s) % 2, 0, -126)
    ELSE LET nu == Norm(u)
             nv == Norm(v)
             qr == LongDiv(nu.m \div nv.m, nu.m % nv.m, nv.m, 4)
             Q  == qr[1] * 4 + (qr[2] * 4) \div nv.m
             R  == (qr[2] * 4) % nv.m
         IN  RoundPack((u.s + v.s) % 2, Q, nu.e - nv.e - 26, R # 0)

\* The n-th input since construction or the last reset, n = 1 for the first;
\* zero before it.
InputAt(n) == IF n < 1 THEN Zero ELSE xs[n]

\* <<y_1, ..., y_n>>, y_i the value of the difference equation for the
\* coefficients stored in f and the inputs xs, its terms taken in the order
\* they are written and every x_j, y_j with j < 1 being zero:
\*   b[0] x_i + ... + b[B-1] x_(i-B+1) - a[1] y_(i-1) - ... - a[A-1] y_(i-A+1)
RECURSIVE RefTerms(_, _, _, _)
RefTerms(prev, i, k, acc) ==
    IF k < f.B
    THEN RefTerms(prev, i, k + 1, fadd(acc, fmul(f.b[k], InputAt(i - k))))
    ELSE IF k < f.B + f.A - 1
    THEN LET j == k - f.B + 1
             yj == IF i - j < 1 THEN Zero ELSE prev[i - j]
         IN  RefTerms(prev, i, k + 1, fsub(acc, fmul(f.a[j], yj)))
    ELSE acc

RECURSIVE RefOutputs(_)
RefOutputs(n) ==
    IF n < 1 THEN <<>>
    ELSE LET prev == RefOutputs(n - 1)
         IN  Append(prev, RefTerms(prev, n, 0, Zero))

\* The state right after the parameterized constructor ran with the
\* coefficients f was built from.
FreshOf(r) ==
    IF r.kind = "default"
    THEN LTIFilter(NoFilter, 1, [k \in {0} |-> One], 1, [k \in {0} |-> One])
    ELSE LTIFilter(NoFilter, r.A, r.a, r.B, r.b)

Calls == Len(xs)

\* c[n] = sum of u[k] * v[n-k] over the k in 0..N1-1 with n-k in 0..N2-1,
\* in increasing k: the linear convolution of u (N1 entries) and v (N2).
RECURSIVE RefConvAt(_, _, _, _, _, _)
RefConvAt(u, N1, v, N2, n, k) ==
    IF k < 0 THEN Zero
    ELSE LET before == RefConvAt(u, N1, v, N2, n, k - 1)
         IN  IF n - k >= 0 /\ n - k <= N2 - 1
             THEN fadd(before, fmul(u[k], v[n - k]))
             ELSE before

RefConv(u, N1, v, N2) ==
    [n \in 0..(N1 + N2 - 2) |-> RefConvAt(u, N1, v, N2, n, N1 - 1)]

\* u is an integer: with integer inputs of small magnitude no operation on
\* such values rounds.
IsInt(u) ==
    u.c = "fin" /\ (u.m = 0 \/ u.e >= 23 \/ (u.e >= 0 /\ u.m % 2^(23 - u.e) = 0))

IntCoeffs(g) ==
    /\ \A k \in 0..(g.A - 1) : IsInt(g.a[k])
    /\ \A k \in 0..(g.B - 1) : IsInt(g.b[k])

\* The float next below 1.
PredOne == [c |-> "fin", s |-> 0, m |-> 2^24 - 1, e |-> -1]

(***************************************************************************)
(* Claims                                                                  *)
(***************************************************************************)

\* C1: counting the update calls since construction or the last reset(),
\* each of the first B-1 calls returns exactly 0 and the B-th call returns
\* the yn it computed, for every filter with 1 <= B <= capacity.
C1_WarmupGating ==
    (Live /\ last = "update") =>
        /\ Calls < f.B => ret = Zero
        /\ Calls = f.B => ret = f.y[0]

\* C1 holds of every filter whose warmup counter has been initialised: one
\* built by the parameterized constructor or by operator*, or reset since.
C1_WarmupGatingOnceInitialised ==
    (Live /\ last = "update" /\ (req.kind # "default" \/ wasReset)) =>
        /\ Calls < f.B => ret = Zero
        /\ Calls = f.B => ret = f.y[0]

\* C2: a filter made by the no-argument constructor, reset() never called,
\* returns xn from every update(xn), the first included; the constructor
\* leaves the history zeroed and the warmup counter at 1.
C2_IdentityFilter ==
    (Live /\ req.kind = "default" /\ ~wasReset) =>
        /\ last = "ctor" => f = FreshOf(req)
        /\ last = "update" => ret = xs[Calls]

\* C3: for a filter built by the parameterized constructor, after the n-th
\* update since construction or reset the histories hold x[i] = x_(n-i) and
\* y[i] = y_(n-i), most recent first, with y_n the value of the difference
\* equation (zero histories before the first call, warmup values included),
\* and from the B-th call on the value returned is y_n.
C3_Recurrence ==
    (Live /\ req.kind \in {"param", "conv"}) =>
        LET ys     == RefOutputs(Calls)
            yAt(n) == IF n < 1 THEN Zero ELSE ys[n]
        IN  /\ \A i \in 0..(f.B - 1) : f.x[i] = InputAt(Calls - i)
            /\ \A i \in 0..(f.A - 1) : f.y[i] = yAt(Calls - i)
            /\ (last = "update" /\ Calls >= f.B) => ret = yAt(Calls)
            /\ (last = "update" /\ Calls < f.B) => ret = Zero

\* C3 witness: a third-order filter past its warmup, fed three inputs, whose
\* last output is not zero.
C3_Witness ==
    /\ Live /\ req.kind = "param" /\ last = "update"
    /\ f.A = 3 /\ f.B = 3 /\ Calls = 4 /\ wasReset
    /\ ret # Zero /\ ret.c = "fin" /\ f.y[2] # Zero /\ f.y[1] # f.y[2]

\* C4: reset(), in any state reached by updates, zeroes the A output-history
\* and B input-history entries, sets the warmup counter to 1 and leaves A, B
\* and the coefficients as they were: the state is the one right after the
\* parameterized constructor with the same coefficients.
C4_Reset ==
    (Live /\ last = "reset") =>
        /\ \A n \in 0..(f.A - 1) : f.y[n] = Zero
        /\ \A n \in 0..(f.B - 1) : f.x[n] = Zero
        /\ f.frame = 1
        /\ f = FreshOf(req)

\* C4 witness: reset() has just run on a filter whose last update returned a
\* non-zero value.
C4_Witness ==
    /\ Live /\ last = "reset" /\ f.B = 3 /\ f.A = 3
    /\ ret # Zero /\ req.kind = "param"

\* C8: the parameterized constructor called with a[0] = 0 fails with an
\* InvalidCoefficients error and yields no usable filter.
C8_ZeroPivotRejected ==
    (req.kind = "param" /\ req.a[0] = Zero) =>
        (err = "InvalidCoefficients" /\ pc # "live")

\* C9: in every state reachable from any constructor by update and reset,
\* 1 <= warmup counter <= B, and after n updates since construction or the
\* last reset the counter is min(n+1, B).
C9_WarmupCounter ==
    Live =>
        /\ 1 <= f.frame /\ f.frame <= f.B
        /\ f.frame = Min(Calls + 1, f.B)

\* C9 holds of every filter whose warmup counter has been initialised.
C9_WarmupCounterOnceInitialised ==
    (Live /\ (req.kind # "default" \/ wasReset)) =>
        /\ 1 <= f.frame /\ f.frame <= f.B
        /\ f.frame = Min(Calls + 1, f.B)

\* C10: after the parameterized constructor with a[0] # 0, or operator* of
\* two such filters, the stored a[0] is 1 and every stored a[k], b[k] is the
\* supplied value divided by the supplied a[0]; the default constructor
\* stores a = b = [1]; A, B and the coefficients never change afterwards.
C10_Normalized ==
    /\ (Live /\ req.kind \in {"param", "conv"} /\ req.a[0] # Zero) =>
        /\ f.A = req.A /\ f.B = req.B
        /\ f.a[0] = One
        /\ \A k \in 0..(f.A - 1) : f.a[k] = fdiv(req.a[k], req.a[0])
        /\ \A k \in 0..(f.B - 1) : f.b[k] = fdiv(req.b[k], req.a[0])
    /\ (Live /\ req.kind = "default") =>
        /\ f.A = 1 /\ f.B = 1 /\ f.a[0] = One /\ f.b[0] = One

\* C10, the part the code keeps: what the constructor stores is each supplied
\* a[k], b[k] times the single-precision reciprocal 1.0f / a[0] (the default
\* constructor stores a = b = [1]), the orders are the supplied ones, and
\* update and reset never change A, B or a coefficient.
C10_ScaledOnceAndImmutable ==
    /\ (Live /\ req.kind \in {"param", "conv"}) =>
        /\ f.A = req.A /\ f.B = req.B
        /\ \A k \in 0..(f.A - 1) : f.a[k] = fmul(req.a[k], frecip(req.a[0]))
        /\ \A k \in 0..(f.B - 1) : f.b[k] = fmul(req.b[k], frecip(req.a[0]))
    /\ (Live /\ req.kind = "default") =>
        /\ f.A = 1 /\ f.B = 1 /\ f.a[0] = One /\ f.b[0] = One

C6_CascadeEquivalence ==
    (pc = "cascade" /\ sync /\ last = "update") => ret = r2

\* C6 as amended: the two agree at every call when f1 has feedforward order
\* 1 (f1 never gates its output) and the stored coefficients and the inputs
\* are integers, so that no operation rounds.
C6_CascadeWithoutWarmupInF1 ==
    (pc = "cascade" /\ sync /\ last = "update" /\ f1.B = 1
        /\ IntCoeffs(f1) /\ IntCoeffs(f2)) => ret = r2

\* C6 witness: such a cascade, with feedback in both operands and a warmup in
\* f2, four inputs in, returning a non-zero value.
C6_Witness ==
    /\ pc = "cascade" /\ sync /\ last = "update" /\ f1.B = 1
    /\ IntCoeffs(f1) /\ IntCoeffs(f2)
    /\ f1.A = 2 /\ f2.A = 2 /\ f2.B = 2 /\ Calls = 4 /\ wasReset
    /\ ret # Zero /\ ret = r2 /\ r1 # ret

\* C7: a constructor call or a convolution whose order exceeds LTIFILTER_MAX_A
\* or LTIFILTER_MAX_B fails with a CapacityExceeded error; no entry at an
\* index >= the capacity is written and no filter of an order above the
\* capacity is produced.
C7_CapacityEnforced ==
    /\ (req.A > MAX_A \/ req.B > MAX_B) => err = "CapacityExceeded"
    /\ oob = {}
    /\ pc # "start" => (f.A <= MAX_A /\ f.B <= MAX_B)

====
